---- MODULE Spec2Model ----
(***************************************************************************)
(* Model of scripts/witness_slip_notifier.py: the Bill model, the          *)
(* OpenStates record normalizer, the corpus loader, the actionability      *)
(* filter, the topic router and the control flow of main().                *)
(*                                                                         *)
(* Strings the code inspects (identifiers, subjects, topics, action        *)
(* descriptions, classifications) are sequences of one-character strings.  *)
(* Strings the code only passes through (titles, names) are opaque.        *)
(* An Optional value is a sequence of length 0 (None) or 1 (the value).    *)
(***************************************************************************)
EXTENDS Integers, Sequences, FiniteSets, TLC

VARIABLES
    pc,              \* position of the running function
    arg,             \* arguments of the function under call
    ret,             \* its return value
    data_dir_exists, \* parse_data_directory: data_path.exists()
    bill_files,      \* parse_data_directory: the globbed files, in discovery order
    file_idx,        \* parse_data_directory: files consumed by the for loop
    bills,           \* the list of Bills collected (parser) / returned to main
    unique_bills,    \* parse_data_directory: the deduplicated list it returns
    mode,            \* main: args.mode
    subs,            \* config['subscriptions']
    actionable,      \* main: the filtered list
    routed,          \* the ordered mapping _route_bills returns
    json_output,     \* main: generate_json's list
    artifacts,       \* the three output files, each None or its content
    exit_status,     \* the process exit status, None while running
    sent             \* send_email: the recipients the mail went to

vars == <<pc, arg, ret, data_dir_exists, bill_files, file_idx, bills, unique_bills,
          mode, subs, actionable, routed, json_output, artifacts, exit_status, sent>>

(***************************************************************************)
(* Bounds of the model.                                                    *)
(***************************************************************************)
MaxSubjects == 2
MaxTopics == 2
MaxNumLen == 4
MaxActions == 3
MaxRecords == 2
MaxFiles == 2
MaxDedupBills == 4
MaxRouteBills == 3
MaxMainBills == 2
MaxPipelineFiles == 2

(***************************************************************************)
(* Python values.                                                          *)
(***************************************************************************)
None == <<>>
Some(x) == <<x>>
Truthy(opt) == opt # None /\ opt[1] # <<>>

SeqsUpTo(S, n) == UNION {[1..k -> S] : k \in 0..n}

Range(s) == {s[i] : i \in 1..Len(s)}

(***************************************************************************)
(* str methods.                                                            *)
(***************************************************************************)
UpperCase == <<"A","B","C","D","E","F","G","H","I","J","K","L","M",
               "N","O","P","Q","R","S","T","U","V","W","X","Y","Z">>
LowerCase == <<"a","b","c","d","e","f","g","h","i","j","k","l","m",
               "n","o","p","q","r","s","t","u","v","w","x","y","z">>
Whitespace == {" ", "\t", "\n"}
Digits == {"0","1","2","3","4","5","6","7","8","9"}

CharLower(c) ==
    IF \E i \in 1..Len(UpperCase) : UpperCase[i] = c
    THEN LowerCase[CHOOSE i \in 1..Len(UpperCase) : UpperCase[i] = c]
    ELSE c

\* s.lower()
lower(s) == [i \in 1..Len(s) |-> CharLower(s[i])]

RECURSIVE lstrip(_)
lstrip(s) ==
    IF s # <<>> /\ s[1] \in Whitespace THEN lstrip(Tail(s)) ELSE s

RECURSIVE rstrip(_)
rstrip(s) ==
    IF s # <<>> /\ s[Len(s)] \in Whitespace
    THEN rstrip(SubSeq(s, 1, Len(s) - 1))
    ELSE s

\* s.strip()
strip(s) == rstrip(lstrip(s))

\* a in b
Contains(b, a) ==
    \E i \in 0..(Len(b) - Len(a)) : SubSeq(b, i + 1, i + Len(a)) = a

\* s.replace(old, new) for a non-empty old: left to right, non-overlapping
RECURSIVE replace(_, _, _)
replace(s, old, new) ==
    IF Len(s) < Len(old) THEN s
    ELSE IF SubSeq(s, 1, Len(old)) = old
         THEN new \o replace(SubSeq(s, Len(old) + 1, Len(s)), old, new)
         ELSE <<s[1]>> \o replace(Tail(s), old, new)

(***************************************************************************)
(* class BillReading, class Chamber.                                       *)
(***************************************************************************)
BillReading == {"FIRST", "SECOND", "THIRD"}
Chamber == {"HOUSE", "SENATE"}

(***************************************************************************)
(* Bill.matches_topics                                                     *)
(***************************************************************************)
\* the inner loop: for topic in normalized_topics
RECURSIVE TopicLoop(_, _, _)
TopicLoop(subject, normalized_topics, j) ==
    IF j > Len(normalized_topics) THEN FALSE
    ELSE IF Contains(subject, normalized_topics[j])
            \/ Contains(normalized_topics[j], subject)
         THEN TRUE
         ELSE TopicLoop(subject, normalized_topics, j + 1)

\* the outer loop: for subject in normalized_subjects
RECURSIVE SubjectLoop(_, _, _)
SubjectLoop(normalized_subjects, normalized_topics, i) ==
    IF i > Len(normalized_subjects) THEN FALSE
    ELSE IF TopicLoop(normalized_subjects[i], normalized_topics, 1) THEN TRUE
         ELSE SubjectLoop(normalized_subjects, normalized_topics, i + 1)

\* mutant: only the topic-in-subject direction is tested
matches_topics_one_way(subjects, topic_list) ==
    \E i \in 1..Len(subjects) : \E j \in 1..Len(topic_list) :
        Contains(lower(subjects[i]), strip(lower(topic_list[j])))

matches_topics(subjects, topic_list) ==
    IF subjects = <<>> THEN FALSE
    ELSE LET normalized_subjects == [i \in 1..Len(subjects) |-> lower(subjects[i])]
             normalized_topics ==
                 [j \in 1..Len(topic_list) |-> strip(lower(topic_list[j]))]
         IN  SubjectLoop(normalized_subjects, normalized_topics, 1)

(***************************************************************************)
(* Bill.get_bill_status_url, Bill.get_witness_slip_url, Bill.__init__      *)
(***************************************************************************)
HB == <<"H", "B">>
SB == <<"S", "B">>

StatusUrlBase == <<"https://www.ilga.gov/legislation/BillStatus?DocTypeID=">>
DocNumParam == <<"&DocNum=">>

\* mutant: the identifier is put into the URL as it is
get_bill_status_url_unstripped(bill_number, chamber) ==
    LET doc_type == IF chamber = "HOUSE" THEN HB ELSE SB
    IN  StatusUrlBase \o doc_type \o DocNumParam \o bill_number

get_bill_status_url(bill_number, chamber) ==
    LET doc_type == IF chamber = "HOUSE" THEN HB ELSE SB
        bill_num == replace(replace(replace(bill_number, doc_type, <<>>), SB, <<>>),
                            HB, <<>>)
    IN  StatusUrlBase \o doc_type \o DocNumParam \o bill_num

get_witness_slip_url(chamber) ==
    <<"https://ilga.gov", "/">>
        \o lower(IF chamber = "HOUSE" THEN <<"H","o","u","s","e">>
                                       ELSE <<"S","e","n","a","t","e">>)
        \o <<"/hearings">>

\* Bill(...): subjects and ilga_url are Optional arguments
Bill(bill_number, chamber, title, sponsor, next_reading, subjects, committee_hearing_date, committee_name, ilga_url) ==
    [bill_number |-> bill_number,
     chamber |-> chamber,
     title |-> title,
     sponsor |-> sponsor,
     next_reading |-> next_reading,
     subjects |-> IF Truthy(subjects) THEN subjects[1] ELSE <<>>,
     committee_hearing_date |-> committee_hearing_date,
     committee_name |-> committee_name,
     ilga_url |-> IF Truthy(ilga_url) THEN ilga_url[1]
                  ELSE get_bill_status_url(bill_number, chamber)]

(***************************************************************************)
(* JSON values of a raw record: a key that may be missing, null, a string, *)
(* a list or an object is [tag, v], v a sequence holding the payload.      *)
(***************************************************************************)
JAbsent == [tag |-> "absent", v |-> <<>>]
JNull == [tag |-> "null", v |-> <<>>]
JStr(s) == [tag |-> "str", v |-> <<s>>]
JList(l) == [tag |-> "list", v |-> <<l>>]
JObj(o) == [tag |-> "obj", v |-> <<o>>]

\* the literals _parse_bill searches for
upper_lit == <<"u","p","p","e","r">>
senate_lit == <<"s","e","n","a","t","e">>
third_reading_lit == <<"t","h","i","r","d"," ","r","e","a","d","i","n","g">>
second_reading_lit == <<"s","e","c","o","n","d"," ","r","e","a","d","i","n","g">>
committee_lit == <<"c","o","m","m","i","t","t","e","e">>
hearing_lit == <<"h","e","a","r","i","n","g">>

\* datetime.fromisoformat(date_str.replace('Z', '+00:00')): a timestamp is its
\* instant t, its zone suffix and whether the text is well formed; the result
\* is None on ValueError, else a datetime that is aware iff a zone is given.
ZoneReplaceZ(zone) == IF zone = "Z" THEN "+00:00" ELSE zone

fromisoformat(date_str) ==
    IF ~date_str.valid THEN None
    ELSE Some([t |-> date_str.t, aware |-> ZoneReplaceZ(date_str.zone) # ""])

\* the chamber of from_organization.classification
ChamberOf(chamber_str) ==
    IF Contains(lower(chamber_str), upper_lit) \/ Contains(lower(chamber_str), senate_lit)
    THEN "SENATE"
    ELSE "HOUSE"

\* title: scalar, or the first element of a list, or 'Unknown'
TitleOf(title) ==
    CASE title.tag = "absent" -> "Unknown"
      [] title.tag = "list" -> IF title.v[1] # <<>> THEN title.v[1][1] ELSE "Unknown"
      [] OTHER -> title.v[1]

\* sponsor: the first entry flagged primary, else the first entry
SponsorOf(sponsors) ==
    IF sponsors = <<>> THEN "Unknown"
    ELSE LET flagged == {i \in 1..Len(sponsors) : sponsors[i].primary}
             primary == IF flagged # {}
                        THEN sponsors[CHOOSE i \in flagged : \A k \in flagged : i <= k]
                        ELSE sponsors[1]
         IN  IF primary.name = None THEN "Unknown" ELSE primary.name[1]

\* subjects: Optional list; a string is wrapped, a missing key gives []
SubjectsOf(subject) ==
    CASE subject.tag = "absent" -> Some(<<>>)
      [] subject.tag = "null" -> None
      [] subject.tag = "str" -> Some(<<subject.v[1]>>)
      [] OTHER -> Some(subject.v[1])

\* for action in reversed(actions): i runs from len(actions) down to 1
RECURSIVE ReadingLoop(_, _)
ReadingLoop(actions, i) ==
    IF i < 1 THEN "FIRST"
    ELSE LET desc == lower(actions[i].description)
         IN  IF Contains(desc, third_reading_lit) THEN "THIRD"
             ELSE IF Contains(desc, second_reading_lit) THEN "SECOND"
             ELSE ReadingLoop(actions, i - 1)

\* for action in actions: the first committee hearing gives date and name
RECURSIVE CommitteeLoop(_, _)
CommitteeLoop(actions, i) ==
    IF i > Len(actions) THEN [committee_date |-> None, committee_name |-> None]
    ELSE LET desc == lower(actions[i].description)
         IN  IF Contains(desc, committee_lit) /\ Contains(desc, hearing_lit)
             THEN [committee_date |->
                       IF actions[i].date # None THEN fromisoformat(actions[i].date[1])
                       ELSE None,
                   committee_name |-> actions[i].organization]
             ELSE CommitteeLoop(actions, i + 1)

\* the statements of _parse_bill that raise on the shapes modelled:
\* None.get on a null from_organization, reversed(None) on null actions
ParseRaises(bill_data) ==
    \/ bill_data.from_organization.tag = "null"
    \/ bill_data.actions.tag = "null"

\* OpenStatesParser._parse_bill: Some(Bill), or None for a skip
parse_bill(bill_data) ==
    LET identifier == IF Truthy(bill_data.identifier) THEN bill_data.identifier
                      ELSE bill_data.bill_id
    IN  IF ~Truthy(identifier) THEN None
        ELSE IF ParseRaises(bill_data) THEN None
        ELSE LET chamber_str == IF bill_data.from_organization.tag = "absent" THEN <<>>
                                ELSE bill_data.from_organization.v[1]
                 actions == IF bill_data.actions.tag = "absent" THEN <<>>
                            ELSE bill_data.actions.v[1]
                 committee == CommitteeLoop(actions, 1)
                 sources == bill_data.sources
                 ilga_url == IF sources # <<>> THEN sources[1] ELSE None
             IN  Some(Bill(identifier[1],
                           ChamberOf(chamber_str),
                           TitleOf(bill_data.title),
                           SponsorOf(bill_data.sponsorships),
                           ReadingLoop(actions, Len(actions)),
                           SubjectsOf(bill_data.subject),
                           committee.committee_date,
                           committee.committee_name,
                           ilga_url))

(***************************************************************************)
(* OpenStatesParser.parse_data_directory                                   *)
(***************************************************************************)
\* for bill_data in data: the Bills of a list of records, skips dropped
RECURSIVE RecordLoop(_, _)
RecordLoop(data, i) ==
    IF i > Len(data) THEN <<>>
    ELSE parse_bill(data[i]) \o RecordLoop(data, i + 1)

\* mutant: without the try of _parse_bill a raising record ends its file
RECURSIVE RecordLoopUncaught(_, _)
RecordLoopUncaught(data, i) ==
    IF i > Len(data) THEN <<>>
    ELSE IF ParseRaises(data[i]) THEN <<>>
    ELSE parse_bill(data[i]) \o RecordLoopUncaught(data, i + 1)

FileBillsUncaught(bill_file) ==
    IF bill_file.name = "metadata.json" THEN <<>>
    ELSE IF bill_file.json.tag = "invalid" THEN <<>>
    ELSE IF bill_file.json.tag = "list" THEN RecordLoopUncaught(bill_file.json.v[1], 1)
    ELSE parse_bill(bill_file.json.v[1])

\* one iteration of "for bill_file in bill_files": the Bills the file adds.
\* json.load raising is caught by the except of the loop body.
FileBills(bill_file) ==
    IF bill_file.name = "metadata.json" THEN <<>>
    ELSE IF bill_file.json.tag = "invalid" THEN <<>>
    ELSE IF bill_file.json.tag = "list" THEN RecordLoop(bill_file.json.v[1], 1)
    ELSE parse_bill(bill_file.json.v[1])

RECURSIVE FileLoop(_, _)
FileLoop(files, i) ==
    IF i > Len(files) THEN <<>>
    ELSE FileBills(files[i]) \o FileLoop(files, i + 1)

\* the loop under "# Deduplicate": seen is the set of bill numbers kept so far
RECURSIVE DedupLoop(_, _, _)
DedupLoop(bs, i, seen) ==
    IF i > Len(bs) THEN <<>>
    ELSE IF bs[i].bill_number \notin seen
         THEN <<bs[i]>> \o DedupLoop(bs, i + 1, seen \cup {bs[i].bill_number})
         ELSE DedupLoop(bs, i + 1, seen)

\* mutant: the last occurrence of a bill number is kept, not the first
RECURSIVE DedupLoopKeepLast(_, _)
DedupLoopKeepLast(bs, i) ==
    IF i > Len(bs) THEN <<>>
    ELSE IF \E k \in (i + 1)..Len(bs) : bs[k].bill_number = bs[i].bill_number
         THEN DedupLoopKeepLast(bs, i + 1)
         ELSE <<bs[i]>> \o DedupLoopKeepLast(bs, i + 1)

DeduplicateKeepLast(bs) == DedupLoopKeepLast(bs, 1)

Deduplicate(bs) == DedupLoop(bs, 1, {})

(***************************************************************************)
(* NotificationGenerator._route_bills and generate_json                    *)
(***************************************************************************)
\* the category labels, written without their leading pictograph
TrackedLabel == "Tracked Bills"
TransportationLabel == "Transportation & Transit"
HousingLabel == "Housing & Development"

BillNumbersOf(bs) == {bs[i].bill_number : i \in 1..Len(bs)}

\* "# Specific bill tracking": the bills whose number is in tracked_bills
TrackedRule(bs, tracked_bills) ==
    LET IsTracked(b) == b.bill_number \in Range(tracked_bills)
    IN  SelectSeq(bs, IsTracked)

\* mutant: a topic rule that does not consult the matched set
TopicRuleIgnoresMatched(bs, matched, subscription) ==
    IF subscription.recipients = <<>> THEN <<>>
    ELSE LET Takes(b) == matches_topics(b.subjects, subscription.topics)
         IN  SelectSeq(bs, Takes)

\* mutant: a topic rule that does not look at the recipients
TopicRuleUngated(bs, matched, subscription) ==
    LET Takes(b) == /\ b.bill_number \notin matched
                    /\ matches_topics(b.subjects, subscription.topics)
    IN  SelectSeq(bs, Takes)

\* "# Transportation" / "# Housing": nothing unless the subscription has
\* recipients, else the unmatched bills that match its topics
TopicRule(bs, matched, subscription) ==
    IF subscription.recipients = <<>> THEN <<>>
    ELSE LET Takes(b) == /\ b.bill_number \notin matched
                         /\ matches_topics(b.subjects, subscription.topics)
         IN  SelectSeq(bs, Takes)

\* the dict entry a rule adds: none when the rule took no bill
Category(label, bs) ==
    IF bs = <<>> THEN <<>> ELSE <<[category |-> label, bills |-> bs]>>

\* mutant: a rule that does not add its bills to the matched set
ClaimedNothing(matched, taken) == matched

\* the set matched after a rule has taken its bills
Claimed(matched, taken) == matched \cup BillNumbersOf(taken)

\* mutant: the housing rule is evaluated before the transportation rule
route_bills_housing_first(bs, subscriptions) ==
    LET tracked == TrackedRule(bs, subscriptions.tracked_bills)
        matched1 == Claimed({}, tracked)
        housing_bills == TopicRule(bs, matched1, subscriptions.housing)
        matched2 == Claimed(matched1, housing_bills)
        trans_bills == TopicRule(bs, matched2, subscriptions.transportation)
    IN  Category(TrackedLabel, tracked)
            \o Category(TransportationLabel, trans_bills)
            \o Category(HousingLabel, housing_bills)

route_bills(bs, subscriptions) ==
    LET tracked == TrackedRule(bs, subscriptions.tracked_bills)
        matched1 == Claimed({}, tracked)
        trans_bills == TopicRule(bs, matched1, subscriptions.transportation)
        matched2 == Claimed(matched1, trans_bills)
        housing_bills == TopicRule(bs, matched2, subscriptions.housing)
    IN  Category(TrackedLabel, tracked)
            \o Category(TransportationLabel, trans_bills)
            \o Category(HousingLabel, housing_bills)

\* datetime.isoformat()
isoformat(d) == [t |-> d.t, zone |-> IF d.aware THEN "+00:00" ELSE ""]

JsonEntry(category, bill) ==
    [category |-> category,
     bill_number |-> bill.bill_number,
     title |-> bill.title,
     topics |-> bill.subjects,
     chamber |-> bill.chamber,
     sponsor |-> bill.sponsor,
     next_reading |-> bill.next_reading,
     witness_slip_url |-> get_witness_slip_url(bill.chamber),
     bill_status_url |-> bill.ilga_url,
     committee_hearing |-> IF bill.committee_hearing_date # None
                           THEN Some(isoformat(bill.committee_hearing_date[1]))
                           ELSE None,
     committee_name |-> bill.committee_name]

RECURSIVE generate_json_loop(_, _)
generate_json_loop(routing, i) ==
    IF i > Len(routing) THEN <<>>
    ELSE [k \in 1..Len(routing[i].bills) |->
              JsonEntry(routing[i].category, routing[i].bills[k])]
         \o generate_json_loop(routing, i + 1)

generate_json(bs, subscriptions) == generate_json_loop(route_bills(bs, subscriptions), 1)

(***************************************************************************)
(* main: the actionability filter.  Time is counted in days.               *)
(***************************************************************************)
Now == 0
WindowDays == 30

\* now <= d <= future raises TypeError when d is timezone-aware, since
\* datetime.now() is naive; the comparison is evaluated whenever d is set
FilterRaises(b) ==
    b.committee_hearing_date # None /\ b.committee_hearing_date[1].aware

IsActionable(b, now) ==
    LET future == now + WindowDays
    IN  \/ /\ b.committee_hearing_date # None
           /\ now <= b.committee_hearing_date[1].t
           /\ b.committee_hearing_date[1].t <= future
        \/ b.next_reading \in {"FIRST", "SECOND"}

(***************************************************************************)
(* Values of the variables a specification does not use.                   *)
(***************************************************************************)
NoArtifacts == [txt |-> None, html |-> None, json |-> None]
NoSubs ==
    [tracked_bills |-> <<>>,
     transportation |-> [topics |-> <<>>, recipients |-> <<>>],
     housing |-> [topics |-> <<>>, recipients |-> <<>>],
     all_recipients |-> <<>>]

CallIdle == arg = None /\ ret = None
LoaderIdle ==
    /\ data_dir_exists = TRUE
    /\ bill_files = <<>>
    /\ file_idx = 0
    /\ unique_bills = <<>>
MainIdle ==
    /\ mode = "local"
    /\ actionable = <<>>
    /\ json_output = <<>>
    /\ artifacts = NoArtifacts
    /\ exit_status = None
    /\ sent = None
RouterIdle == subs = NoSubs /\ routed = <<>>

loaderVars == <<data_dir_exists, bill_files, file_idx, unique_bills>>
mainVars == <<mode, actionable, json_output, artifacts, exit_status, sent>>
routerVars == <<subs, routed>>

(***************************************************************************)
(* SpecTopics: one call of Bill.matches_topics on every subject list and   *)
(* topic list over the strings below.                                      *)
(***************************************************************************)
SubjectStrings ==
    { <<>>, <<"A">>, <<"A", "b">>, <<"b", " ">>, <<"c">> }
TopicStrings ==
    { <<>>, <<"a">>, <<" ", "A", "B", " ">>, <<"B">>, <<"C", " ", "b", " ", "a">> }

InitTopics ==
    /\ pc = "call"
    /\ arg \in [subjects : SeqsUpTo(SubjectStrings, MaxSubjects),
                 topic_list : SeqsUpTo(TopicStrings, MaxTopics)]
    /\ ret = None
    /\ bills = <<>>
    /\ LoaderIdle /\ MainIdle /\ RouterIdle

CallMatchesTopics ==
    /\ pc = "call"
    /\ ret' = matches_topics(arg.subjects, arg.topic_list)
    /\ pc' = "return"
    /\ UNCHANGED <<arg, bills, loaderVars, mainVars, routerVars>>

NextTopics == CallMatchesTopics

SpecTopics == InitTopics /\ [][NextTopics]_vars

(***************************************************************************)
(* SpecUrl: one construction of a Bill, for every identifier of up to      *)
(* MaxNumLen characters that ends with a digit, both chambers, with and    *)
(* without a source URL.                                                   *)
(***************************************************************************)
NumberChars == {"H", "B", "S", "b", " ", "1"}
BillNumbers == {p \o <<"1">> : p \in SeqsUpTo(NumberChars, MaxNumLen - 1)}
SourceUrl == <<"https://source.example/bill">>

InitUrl ==
    /\ pc = "call"
    /\ arg \in [bill_number : BillNumbers,
                 chamber : Chamber,
                 ilga_url : {None, Some(<<>>), Some(SourceUrl)}]
    /\ ret = None
    /\ bills = <<>>
    /\ LoaderIdle /\ MainIdle /\ RouterIdle

CallBill ==
    /\ pc = "call"
    /\ ret' = Some(Bill(arg.bill_number, arg.chamber, "Unknown", "Unknown", "FIRST",
                        None, None, None, arg.ilga_url))
    /\ pc' = "return"
    /\ UNCHANGED <<arg, bills, loaderVars, mainVars, routerVars>>

NextUrl == CallBill

SpecUrl == InitUrl /\ [][NextUrl]_vars

(***************************************************************************)
(* Input data shared by the specifications below.                          *)
(***************************************************************************)
HB1 == <<"H","B","1">>
SB2 == <<"S","B","2">>
HB3 == <<"H","B","3">>

FirstReadingDesc == <<"F","i","r","s","t"," ","R","e","a","d","i","n","g">>
SecondReadingDesc == <<"S","e","c","o","n","d"," ","R","e","a","d","i","n","g">>
ThirdReadingDesc == <<"T","h","i","r","d"," ","R","e","a","d","i","n","g">>
CommitteeHearingDesc == <<"C","o","m","m","i","t","t","e","e"," ","H","e","a","r","i","n","g">>

PublicTransit == <<"P","u","b","l","i","c"," ","T","r","a","n","s","i","t">>
AffordableHousing == <<"A","f","f","o","r","d","a","b","l","e"," ","H","o","u","s","i","n","g">>
TransitHousing == <<"T","r","a","n","s","i","t"," ","H","o","u","s","i","n","g">>
Education == <<"E","d","u","c","a","t","i","o","n">>
TransitTopic == <<"T","r","a","n","s","i","t">>
HousingTopic == <<" ","h","o","u","s","i","n","g">>

Timestamp(t, zone, valid) == [t |-> t, zone |-> zone, valid |-> valid]

BaseRecord ==
    [identifier |-> Some(HB1),
     bill_id |-> None,
     from_organization |-> JObj(<<"l","o","w","e","r">>),
     title |-> JStr("An Act"),
     sponsorships |-> <<>>,
     subject |-> JAbsent,
     actions |-> JAbsent,
     sources |-> <<>>]

(***************************************************************************)
(* SpecParse: one call of _parse_bill, on records with every action        *)
(* history of up to MaxActions actions and on every mix of field shapes.   *)
(***************************************************************************)
ReadingActions ==
    {[description |-> d, date |-> Some(Timestamp(1, "", TRUE)), organization |-> None] :
        d \in {FirstReadingDesc, SecondReadingDesc, ThirdReadingDesc}}
HearingActions ==
    {[description |-> CommitteeHearingDesc, date |-> dt,
      organization |-> Some("Transportation Committee")] :
        dt \in {None, Some(Timestamp(3, "", TRUE)), Some(Timestamp(3, "Z", TRUE)),
                Some(Timestamp(3, "", FALSE))}}
Actions == ReadingActions \cup HearingActions

Sponsorships ==
    { <<>>,
      <<[primary |-> FALSE, name |-> Some("Rep. A")],
        [primary |-> TRUE, name |-> Some("Rep. B")]>>,
      <<[primary |-> FALSE, name |-> None]>> }

ParseRecords ==
    {[BaseRecord EXCEPT !.actions = JList(a)] : a \in SeqsUpTo(Actions, MaxActions)}
    \cup
    [identifier : {None, Some(<<>>), Some(HB1)},
     bill_id : {None, Some(SB2)},
     from_organization : {JAbsent, JNull, JObj(<<"u","p","p","e","r">>), JObj(<<"S","e","n","a","t","e">>), JObj(<<"l","o","w","e","r">>)},
     title : {JAbsent, JStr("An Act"), JList(<<>>), JList(<<"Act One", "Act Two">>)},
     sponsorships : Sponsorships,
     subject : {JAbsent, JNull, JStr(PublicTransit), JList(<<PublicTransit, Education>>)},
     actions : {JAbsent, JNull},
     sources : {<<>>, <<Some(SourceUrl)>>, <<None>>}]

InitParse ==
    /\ pc = "call"
    /\ arg \in ParseRecords
    /\ ret = None
    /\ bills = <<>>
    /\ LoaderIdle /\ MainIdle /\ RouterIdle

CallParseBill ==
    /\ pc = "call"
    /\ ret' = parse_bill(arg)
    /\ pc' = "return"
    /\ UNCHANGED <<arg, bills, loaderVars, mainVars, routerVars>>

NextParse == CallParseBill

SpecParse == InitParse /\ [][NextParse]_vars

(***************************************************************************)
(* SpecLoad: one call of parse_data_directory on every directory of up to  *)
(* MaxFiles files of up to MaxRecords records each.                        *)
(***************************************************************************)
RecordA == BaseRecord
RecordB == [BaseRecord EXCEPT !.identifier = None, !.bill_id = Some(SB2),
                              !.title = JStr("Another Act")]
RecordNoId == [BaseRecord EXCEPT !.identifier = None]
RecordRaises == [BaseRecord EXCEPT !.identifier = Some(HB3), !.actions = JNull]
LoadRecords == {RecordA, RecordB, RecordNoId, RecordRaises}
\* the records of the files that hold a list; a file of one object holds any
ListRecords == {RecordA, RecordNoId, RecordRaises}

JInvalid == [tag |-> "invalid", v |-> <<>>]

BillFiles ==
    {[name |-> "bills.json", json |-> c] :
        c \in {JInvalid}
              \cup {JList(l) : l \in SeqsUpTo(ListRecords, MaxRecords)}
              \cup {JObj(r) : r \in LoadRecords}}
    \cup {[name |-> "metadata.json", json |-> JObj(RecordA)]}

InitLoad ==
    /\ pc = "call"
    /\ data_dir_exists \in BOOLEAN
    /\ bill_files \in (IF data_dir_exists THEN SeqsUpTo(BillFiles, MaxFiles) ELSE {<<>>})
    /\ file_idx = 0
    /\ bills = <<>>
    /\ unique_bills = <<>>
    /\ CallIdle /\ MainIdle /\ RouterIdle

\* if not data_path.exists(): return []
DirectoryNotFound ==
    /\ pc = "call"
    /\ ~data_dir_exists
    /\ unique_bills' = <<>>
    /\ pc' = "return"
    /\ UNCHANGED <<arg, ret, data_dir_exists, bill_files, file_idx, bills, mainVars,
                   routerVars>>

\* the loop over bill_files, then the deduplication
ParseDataDirectory ==
    /\ pc = "call"
    /\ data_dir_exists
    /\ bills' = FileLoop(bill_files, 1)
    /\ file_idx' = Len(bill_files)
    /\ unique_bills' = Deduplicate(bills')
    /\ pc' = "return"
    /\ UNCHANGED <<arg, ret, data_dir_exists, bill_files, mainVars, routerVars>>

NextLoad == DirectoryNotFound \/ ParseDataDirectory

SpecLoad == InitLoad /\ [][NextLoad]_vars

(***************************************************************************)
(* SpecDedup: the deduplication of parse_data_directory on every list of   *)
(* up to MaxDedupBills collected Bills, two of them per bill number.       *)
(***************************************************************************)
PlainBill(number, title, subjects, reading, hearing) ==
    Bill(number, "HOUSE", title, "Unknown", reading, Some(subjects), hearing,
         IF hearing = None THEN None ELSE Some("Transportation Committee"), None)

DedupBills ==
    {PlainBill(n, t, <<>>, "FIRST", None) : n \in {HB1, SB2}, t \in {"An Act", "Another Act"}}

InitDedup ==
    /\ pc = "dedup"
    /\ bills \in SeqsUpTo(DedupBills, MaxDedupBills)
    /\ data_dir_exists = TRUE
    /\ bill_files = <<>>
    /\ file_idx = 0
    /\ unique_bills = <<>>
    /\ CallIdle /\ MainIdle /\ RouterIdle

DeduplicateBills ==
    /\ pc = "dedup"
    /\ unique_bills' = Deduplicate(bills)
    /\ pc' = "return"
    /\ UNCHANGED <<arg, ret, data_dir_exists, bill_files, file_idx, bills, mainVars,
                   routerVars>>

NextDedup == DeduplicateBills

SpecDedup == InitDedup /\ [][NextDedup]_vars

(***************************************************************************)
(* SpecRoute: one call of _route_bills on every list of up to              *)
(* MaxRouteBills Bills (bill numbers may repeat) and every configuration.  *)
(***************************************************************************)
SubjectLists ==
    { <<>>, <<PublicTransit>>, <<AffordableHousing>>, <<TransitHousing>>,
      <<Education, AffordableHousing>> }

RouteBills ==
    {PlainBill(n, "An Act", sj, "FIRST", None) : n \in {HB1, SB2}, sj \in SubjectLists}

Subscriptions ==
    [tracked_bills : {<<>>, <<HB1>>, <<SB2, HB1>>},
     transportation : [topics : {<<TransitTopic>>},
                       recipients : {<<>>, <<"transit.example.org">>}],
     housing : [topics : {<<HousingTopic>>},
                recipients : {<<>>, <<"housing.example.org">>}],
     all_recipients : {<<>>}]

InitRoute ==
    /\ pc = "call"
    /\ arg \in SeqsUpTo(RouteBills, MaxRouteBills)
    /\ subs \in Subscriptions
    /\ routed = <<>>
    /\ ret = None
    /\ bills = <<>>
    /\ LoaderIdle /\ MainIdle

CallRouteBills ==
    /\ pc = "call"
    /\ routed' = route_bills(arg, subs)
    /\ pc' = "return"
    /\ UNCHANGED <<arg, ret, bills, subs, loaderVars, mainVars>>

NextRoute == CallRouteBills

SpecRoute == InitRoute /\ [][NextRoute]_vars

(***************************************************************************)
(* SpecMain: main() from the return of parse_data_directory to the exit,   *)
(* on every deduplicated list of up to MaxMainBills Bills, both modes and  *)
(* every configuration.  Rendering and SMTP delivery are collaborators:    *)
(* a rendered text is the routing it renders, a sent mail its recipients.  *)
(***************************************************************************)
Placeholder(message) == [message |-> message, routed |-> <<>>]
Rendered(format, routing) == [message |-> format, routed |-> routing]
JsonText(value) == [json |-> value]

\* mutant: an empty-result branch that leaves out the JSON file
EmptyArtifactsNoJson(m, txt, html) ==
    IF m = "github-action"
    THEN [txt |-> Some(Placeholder(txt)), html |-> Some(Placeholder(html)), json |-> None]
    ELSE NoArtifacts

\* the three files of an empty-result branch, written in github-action mode only
EmptyArtifacts(m, txt, html) ==
    IF m = "github-action"
    THEN [txt |-> Some(Placeholder(txt)),
          html |-> Some(Placeholder(html)),
          json |-> Some(JsonText(<<>>))]
    ELSE NoArtifacts

HearingDates ==
    {None} \cup {Some([t |-> Now + d, aware |-> FALSE]) : d \in {-1, 0, WindowDays, WindowDays + 1}}
           \cup {Some([t |-> Now + WindowDays, aware |-> TRUE])}

MainBills ==
    {PlainBill(n, "An Act", sj, r, h) :
        n \in {HB1, SB2}, sj \in {<<>>, <<PublicTransit>>}, r \in BillReading,
        h \in HearingDates}

MainBillLists ==
    {l \in SeqsUpTo(MainBills, MaxMainBills) :
        \A i, j \in 1..Len(l) : i # j => l[i].bill_number # l[j].bill_number}

MainSubscriptions ==
    [tracked_bills : {<<>>, <<HB1>>},
     transportation : [topics : {<<TransitTopic>>},
                       recipients : {<<>>, <<"transit.example.org">>}],
     housing : [topics : {<<HousingTopic>>},
                recipients : {<<>>, <<"housing.example.org">>}],
     all_recipients : {<<>>}]

InitMain ==
    /\ pc = "parsed"
    /\ mode \in {"local", "github-action"}
    /\ subs \in MainSubscriptions
    /\ bills \in MainBillLists
    /\ actionable = <<>>
    /\ routed = <<>>
    /\ json_output = <<>>
    /\ artifacts = NoArtifacts
    /\ exit_status = None
    /\ sent = None
    /\ CallIdle /\ LoaderIdle

\* if not bills: ... sys.exit(0)
NoBillsExit ==
    /\ pc = "parsed"
    /\ bills = <<>>
    /\ artifacts' = EmptyArtifacts(mode, "No bills found.\n", "<p>No bills found.</p>")
    /\ exit_status' = Some(0)
    /\ pc' = "exited"
    /\ UNCHANGED <<arg, ret, bills, loaderVars, mode, actionable, json_output, sent,
                   routerVars>>

\* actionable = [b for b in bills if ...], every comparison returning
FilterActionable ==
    /\ pc = "parsed"
    /\ bills # <<>>
    /\ \A i \in 1..Len(bills) : ~FilterRaises(bills[i])
    /\ LET Keeps(b) == IsActionable(b, Now)
       IN  actionable' = SelectSeq(bills, Keeps)
    /\ pc' = "filtered"
    /\ UNCHANGED <<arg, ret, bills, loaderVars, mode, json_output, artifacts, exit_status,
                   sent, routerVars>>

\* the same statement when a comparison raises: the TypeError is not caught
FilterAborts ==
    /\ pc = "parsed"
    /\ bills # <<>>
    /\ \E i \in 1..Len(bills) : FilterRaises(bills[i])
    /\ exit_status' = Some(1)
    /\ pc' = "aborted"
    /\ UNCHANGED <<arg, ret, bills, loaderVars, mode, actionable, json_output, artifacts,
                   sent, routerVars>>

\* if not actionable: ... sys.exit(0)
NoActionableExit ==
    /\ pc = "filtered"
    /\ actionable = <<>>
    /\ artifacts' = EmptyArtifacts(mode, "No actionable bills.\n",
                                   "<p>No actionable bills.</p>")
    /\ exit_status' = Some(0)
    /\ pc' = "exited"
    /\ UNCHANGED <<arg, ret, bills, loaderVars, mode, actionable, json_output, sent,
                   routerVars>>

\* mutant: the routing is given the whole corpus, not the filtered list
GenerateNotificationsUnfiltered ==
    /\ pc = "filtered"
    /\ actionable # <<>>
    /\ routed' = route_bills(bills, subs)
    /\ json_output' = generate_json(bills, subs)
    /\ pc' = "generated"
    /\ UNCHANGED <<arg, ret, bills, loaderVars, mode, actionable, artifacts, exit_status,
                   sent, subs>>

\* generate_notifications(actionable) and generate_json(actionable)
GenerateNotifications ==
    /\ pc = "filtered"
    /\ actionable # <<>>
    /\ routed' = route_bills(actionable, subs)
    /\ json_output' = generate_json(actionable, subs)
    /\ pc' = "generated"
    /\ UNCHANGED <<arg, ret, bills, loaderVars, mode, actionable, artifacts, exit_status,
                   sent, subs>>

\* if not json_output: ... sys.exit(0)
NoMatchesExit ==
    /\ pc = "generated"
    /\ json_output = <<>>
    /\ artifacts' = EmptyArtifacts(mode, "No matches.\n", "<p>No matches.</p>")
    /\ exit_status' = Some(0)
    /\ pc' = "exited"
    /\ UNCHANGED <<arg, ret, bills, loaderVars, mode, actionable, json_output, sent,
                   routerVars>>

\* github-action mode: the three files hold the rendered notifications
WriteArtifacts ==
    /\ pc = "generated"
    /\ json_output # <<>>
    /\ mode = "github-action"
    /\ artifacts' = [txt |-> Some(Rendered("plain", routed)),
                     html |-> Some(Rendered("html", routed)),
                     json |-> Some(JsonText(json_output))]
    /\ exit_status' = Some(0)
    /\ pc' = "exited"
    /\ UNCHANGED <<arg, ret, bills, loaderVars, mode, actionable, json_output, sent,
                   routerVars>>

\* local mode: print(plain) and send_email to all configured recipients;
\* send_email returns without sending when there is no recipient
SendEmail ==
    /\ pc = "generated"
    /\ json_output # <<>>
    /\ mode = "local"
    /\ LET all_recipients == subs.transportation.recipients
                                 \o subs.housing.recipients \o subs.all_recipients
       IN  sent' = IF all_recipients = <<>> THEN None ELSE Some(all_recipients)
    /\ exit_status' = Some(0)
    /\ pc' = "exited"
    /\ UNCHANGED <<arg, ret, bills, loaderVars, mode, actionable, json_output, artifacts,
                   routerVars>>

NextMain ==
    \/ NoBillsExit
    \/ FilterActionable
    \/ FilterAborts
    \/ NoActionableExit
    \/ GenerateNotifications
    \/ NoMatchesExit
    \/ WriteArtifacts
    \/ SendEmail

SpecMain == InitMain /\ [][NextMain]_vars

(***************************************************************************)
(* SpecPipeline: main() from the call of parse_data_directory to the exit, *)
(* on every directory of up to MaxPipelineFiles files that hold one record *)
(* each, as an object or as a list, with the topic lists that              *)
(* EnvironmentConfig.load gives when the environment sets none.            *)
(***************************************************************************)
HB1234 == <<"H","B","1","2","3","4">>
Housing == <<"H","o","u","s","i","n","g">>

DefaultTransportationTopics ==
    << <<"T","r","a","n","s","p","o","r","t","a","t","i","o","n">>,
       <<"P","u","b","l","i","c"," ","T","r","a","n","s","i","t">>,
       <<"R","o","a","d","s">>,
       <<"H","i","g","h","w","a","y","s">>,
       <<"B","i","c","y","c","l","e">>,
       <<"P","e","d","e","s","t","r","i","a","n">>,
       <<"T","r","a","f","f","i","c">> >>
DefaultHousingTopics ==
    << <<"H","o","u","s","i","n","g">>,
       <<"A","f","f","o","r","d","a","b","l","e"," ","H","o","u","s","i","n","g">>,
       <<"R","e","a","l"," ","E","s","t","a","t","e">>,
       <<"Z","o","n","i","n","g">>,
       <<"L","a","n","d"," ","U","s","e">>,
       <<"D","e","v","e","l","o","p","m","e","n","t">> >>

\* a record that holds an identifier and a subject only
BareRecord(identifier, subject) ==
    [identifier |-> Some(identifier),
     bill_id |-> None,
     from_organization |-> JAbsent,
     title |-> JAbsent,
     sponsorships |-> <<>>,
     subject |-> subject,
     actions |-> JAbsent,
     sources |-> <<>>]

ThirdReadingAction ==
    [description |-> ThirdReadingDesc, date |-> Some(Timestamp(Now - 1, "", TRUE)),
     organization |-> None]
HearingAction(zone) ==
    [description |-> CommitteeHearingDesc,
     date |-> Some(Timestamp(Now + WindowDays, zone, TRUE)),
     organization |-> Some("Transportation Committee")]

\* HB1234 on housing without actions; SB2 at third reading without a hearing;
\* HB3 at third reading with a hearing whose timestamp has no zone or a "Z"
ScenarioRecords ==
    {[BareRecord(HB1234, JStr(AffordableHousing)) EXCEPT !.actions = a] :
        a \in {JAbsent, JList(<<>>)}}
ThirdReadingRecord ==
    [BareRecord(SB2, JStr(PublicTransit)) EXCEPT
        !.from_organization = JObj(<<"u","p","p","e","r">>),
        !.actions = JList(<<ThirdReadingAction>>)]
HearingRecords ==
    {[BareRecord(HB3, JList(<<PublicTransit>>)) EXCEPT
        !.actions = JList(<<HearingAction(zone), ThirdReadingAction>>)] :
        zone \in {"", "Z"}}
PipelineRecords == ScenarioRecords \cup {ThirdReadingRecord} \cup HearingRecords

PipelineFiles ==
    {[name |-> "bills.json", json |-> c] :
        c \in {JObj(r) : r \in PipelineRecords}
              \cup {JList(<<r>>) : r \in PipelineRecords}}

PipelineSubscriptions ==
    [tracked_bills : {<<>>, <<SB2>>},
     transportation : [topics : {DefaultTransportationTopics},
                       recipients : {<<>>, <<"transit.example.org">>}],
     housing : [topics : {DefaultHousingTopics, <<Housing>>},
                recipients : {<<>>, <<"housing.example.org">>}],
     all_recipients : {<<>>}]

InitPipeline ==
    /\ pc = "call"
    /\ data_dir_exists \in BOOLEAN
    /\ bill_files \in (IF data_dir_exists THEN SeqsUpTo(PipelineFiles, MaxPipelineFiles)
                                           ELSE {<<>>})
    /\ file_idx = 0
    /\ bills = <<>>
    /\ unique_bills = <<>>
    /\ mode \in {"local", "github-action"}
    /\ subs \in PipelineSubscriptions
    /\ actionable = <<>>
    /\ routed = <<>>
    /\ json_output = <<>>
    /\ artifacts = NoArtifacts
    /\ exit_status = None
    /\ sent = None
    /\ CallIdle

\* bills = parser.parse_data_directory(args.data_dir)
ReturnBills ==
    /\ pc = "return"
    /\ bills' = unique_bills
    /\ pc' = "parsed"
    /\ UNCHANGED <<arg, ret, loaderVars, mainVars, routerVars>>

NextPipeline ==
    \/ DirectoryNotFound
    \/ ParseDataDirectory
    \/ ReturnBills
    \/ NoBillsExit
    \/ FilterActionable
    \/ FilterAborts
    \/ NoActionableExit
    \/ GenerateNotifications
    \/ NoMatchesExit
    \/ WriteArtifacts
    \/ SendEmail

SpecPipeline == InitPipeline /\ [][NextPipeline]_vars

(***************************************************************************)
(* Properties.                                                             *)
(***************************************************************************)
InCategory(label, bill) ==
    \E i \in 1..Len(routed) :
        routed[i].category = label /\ bill \in Range(routed[i].bills)

MatchesTransportation(b) == matches_topics(b.subjects, subs.transportation.topics)
MatchesHousing(b) == matches_topics(b.subjects, subs.housing.topics)
IsTrackedBill(b) == b.bill_number \in Range(subs.tracked_bills)

\* C1: _route_bills places every bill_number in at most one category: the
\* categories of the returned mapping have distinct labels and pairwise
\* disjoint sets of bill numbers, also for a bill matching both topics.
C1_AtMostOneCategory ==
    pc = "return" =>
        \A i, j \in 1..Len(routed) :
            i # j =>
                /\ routed[i].category # routed[j].category
                /\ BillNumbersOf(routed[i].bills) \cap BillNumbersOf(routed[j].bills) = {}

\* C1 witness: both subscriptions have recipients and an untracked bill that
\* matches both topics has been routed.
C1_Witness ==
    /\ pc = "return"
    /\ subs.transportation.recipients # <<>>
    /\ subs.housing.recipients # <<>>
    /\ \E k \in 1..Len(arg) :
           /\ ~IsTrackedBill(arg[k])
           /\ MatchesTransportation(arg[k]) /\ MatchesHousing(arg[k])
           /\ InCategory(TransportationLabel, arg[k])

\* C2: a bill whose number is in tracked_bills is in the tracked category,
\* which comes first, and its number is in no other category, whatever the
\* recipient lists are and whatever topics it matches.
C2_TrackedPriority ==
    pc = "return" =>
        \A k \in 1..Len(arg) :
            IsTrackedBill(arg[k]) =>
                /\ routed # <<>>
                /\ routed[1].category = TrackedLabel
                /\ arg[k] \in Range(routed[1].bills)
                /\ \A i \in 2..Len(routed) :
                       arg[k].bill_number \notin BillNumbersOf(routed[i].bills)

\* C2 witness: a tracked bill that also matches the transportation topics,
\* whose subscription has recipients, has been routed.
C2_Witness ==
    /\ pc = "return"
    /\ subs.transportation.recipients # <<>>
    /\ \E k \in 1..Len(arg) :
           /\ IsTrackedBill(arg[k])
           /\ MatchesTransportation(arg[k])
           /\ InCategory(TrackedLabel, arg[k])

\* C3: a topic subscription without recipients adds no category, and claims
\* nothing: with transportation recipients empty and housing recipients
\* given, every untracked bill matching the housing topics is in the housing
\* category, also when it matches the transportation topics.
C3_RecipientGating ==
    pc = "return" =>
        /\ subs.transportation.recipients = <<>> =>
               \A i \in 1..Len(routed) : routed[i].category # TransportationLabel
        /\ subs.housing.recipients = <<>> =>
               \A i \in 1..Len(routed) : routed[i].category # HousingLabel
        /\ (subs.transportation.recipients = <<>> /\ subs.housing.recipients # <<>>) =>
               \A k \in 1..Len(arg) :
                   (~IsTrackedBill(arg[k]) /\ MatchesHousing(arg[k]))
                       => InCategory(HousingLabel, arg[k])

\* C3 witness: transportation has no recipients, housing has, and an
\* untracked bill matching both topics has been routed to housing.
C3_Witness ==
    /\ pc = "return"
    /\ subs.transportation.recipients = <<>>
    /\ subs.housing.recipients # <<>>
    /\ \E k \in 1..Len(arg) :
           /\ ~IsTrackedBill(arg[k])
           /\ MatchesTransportation(arg[k]) /\ MatchesHousing(arg[k])
           /\ InCategory(HousingLabel, arg[k])

TopicInSubject(subject, topic) == Contains(lower(subject), strip(lower(topic)))
SubjectInTopic(subject, topic) == Contains(strip(lower(topic)), lower(subject))

\* C4: matches_topics returns true exactly when some lower-cased, trimmed
\* topic is a substring of some lower-cased subject or some lower-cased
\* subject is a substring of some such topic; so it returns false for an
\* empty subject list.
C4_TopicMatch ==
    pc = "return" =>
        ret = (\E i \in 1..Len(arg.subjects) : \E j \in 1..Len(arg.topic_list) :
                  \/ TopicInSubject(arg.subjects[i], arg.topic_list[j])
                  \/ SubjectInTopic(arg.subjects[i], arg.topic_list[j]))

\* C4 witness: a call that returned true although no topic is a substring of
\* any subject: only a subject within a topic made the match.
C4_Witness ==
    /\ pc = "return"
    /\ ret = TRUE
    /\ \A i \in 1..Len(arg.subjects) : \A j \in 1..Len(arg.topic_list) :
           ~TopicInSubject(arg.subjects[i], arg.topic_list[j])

FirstIndex(bs, n) ==
    CHOOSE i \in 1..Len(bs) :
        bs[i].bill_number = n /\ \A k \in 1..(i - 1) : bs[k].bill_number # n

\* C5: the deduplicated list holds exactly one Bill per bill_number of the
\* collected list, that Bill is the first occurrence, the kept Bills are in
\* the order of the collected list, and deduplicating again changes nothing.
C5_Deduplication ==
    pc = "return" =>
        /\ BillNumbersOf(unique_bills) = BillNumbersOf(bills)
        /\ \A i, j \in 1..Len(unique_bills) :
               i # j => unique_bills[i].bill_number # unique_bills[j].bill_number
        /\ \A i \in 1..Len(unique_bills) :
               unique_bills[i] = bills[FirstIndex(bills, unique_bills[i].bill_number)]
        /\ \A i, j \in 1..Len(unique_bills) :
               i < j => FirstIndex(bills, unique_bills[i].bill_number)
                            < FirstIndex(bills, unique_bills[j].bill_number)
        /\ Deduplicate(unique_bills) = unique_bills

\* C5 witness: two bill numbers were kept and a later occurrence with other
\* fields than the kept one was dropped.
C5_Witness ==
    /\ pc = "return"
    /\ Len(unique_bills) = 2
    /\ \E i \in 1..Len(unique_bills) : \E k \in 1..Len(bills) :
           /\ bills[k].bill_number = unique_bills[i].bill_number
           /\ bills[k] # unique_bills[i]

\* C6: for the action history First Reading, Second Reading, First Reading
\* the normalizer resolves next_reading to FIRST.
C6_ReadingStageRecency ==
    (/\ pc = "return"
     /\ arg.actions.tag = "list"
     /\ [i \in 1..Len(arg.actions.v[1]) |-> arg.actions.v[1][i].description]
            = <<FirstReadingDesc, SecondReadingDesc, FirstReadingDesc>>)
        => (ret # None /\ ret[1].next_reading = "FIRST")

InWindow(b) ==
    /\ b.committee_hearing_date # None
    /\ Now <= b.committee_hearing_date[1].t
    /\ b.committee_hearing_date[1].t <= Now + WindowDays

\* C7: once main has applied the filter, a bill is in the actionable list
\* exactly when its hearing date lies in [now, now + 30 days] or its
\* next_reading is FIRST or SECOND; so a hearing on day 30 is kept, and a
\* THIRD-reading bill with a hearing on day 31 or with no hearing is not.
C7_ActionabilityWindow ==
    pc \in {"filtered", "generated", "exited", "aborted"} =>
        \A i \in 1..Len(bills) :
            (bills[i] \in Range(actionable))
                <=> (InWindow(bills[i]) \/ bills[i].next_reading \in {"FIRST", "SECOND"})

IsDigit(c) == c \in Digits

\* C8: the status_url of a Bill is the source URL given at construction, or
\* else the ILGA address with the chamber's document type and, as DocNum,
\* the bill_number with every non-digit character removed.
C8_StatusUrl ==
    pc = "return" =>
        ret[1].ilga_url =
            IF Truthy(arg.ilga_url) THEN arg.ilga_url[1]
            ELSE StatusUrlBase \o (IF arg.chamber = "HOUSE" THEN HB ELSE SB)
                     \o DocNumParam \o SelectSeq(arg.bill_number, IsDigit)

RecordsOf(bill_file) ==
    IF bill_file.json.tag = "list" THEN bill_file.json.v[1]
    ELSE IF bill_file.json.tag = "obj" THEN <<bill_file.json.v[1]>>
    ELSE <<>>

HasIdentifier(r) == Truthy(r.identifier) \/ Truthy(r.bill_id)
WellFormed(r) ==
    HasIdentifier(r) /\ r.from_organization.tag # "null" /\ r.actions.tag # "null"
IdentifierOf(r) == IF Truthy(r.identifier) THEN r.identifier[1] ELSE r.bill_id[1]

\* C9: when parse_data_directory returns, every well-formed record of every
\* parseable file has been normalized into the collected list and its bill
\* number is in the result, whatever unparseable files and whatever records
\* without identifier or with raising fields surround it; and every Bill of
\* the result stems from such a record.
C9_FailureIsolation ==
    (pc = "return" /\ data_dir_exists) =>
        /\ \A f \in 1..Len(bill_files) :
               bill_files[f].name # "metadata.json" =>
                   \A k \in 1..Len(RecordsOf(bill_files[f])) :
                       LET r == RecordsOf(bill_files[f])[k]
                       IN  WellFormed(r) =>
                               /\ \E i \in 1..Len(bills) :
                                      /\ bills[i].bill_number = IdentifierOf(r)
                                      /\ bills[i].title = TitleOf(r.title)
                               /\ IdentifierOf(r) \in BillNumbersOf(unique_bills)
        /\ \A i \in 1..Len(unique_bills) :
               \E f \in 1..Len(bill_files) :
                   \E k \in 1..Len(RecordsOf(bill_files[f])) :
                       LET r == RecordsOf(bill_files[f])[k]
                       IN  /\ bill_files[f].name # "metadata.json"
                           /\ WellFormed(r)
                           /\ IdentifierOf(r) = unique_bills[i].bill_number

\* C9 witness: a directory with a file that is not JSON and a file in which
\* a record without identifier or with a raising field precedes a
\* well-formed record, whose Bill is in the result.
C9_Witness ==
    /\ pc = "return"
    /\ \E f \in 1..Len(bill_files) : bill_files[f].json.tag = "invalid"
    /\ \E f \in 1..Len(bill_files) :
           /\ Len(RecordsOf(bill_files[f])) = 2
           /\ ~WellFormed(RecordsOf(bill_files[f])[1])
           /\ HasIdentifier(RecordsOf(bill_files[f])[1])
           /\ WellFormed(RecordsOf(bill_files[f])[2])
           /\ IdentifierOf(RecordsOf(bill_files[f])[2]) \in BillNumbersOf(unique_bills)

EmptyResultExit == pc = "exited" /\ json_output = <<>>

PlaceholderArtifacts ==
    /\ artifacts.txt # None /\ artifacts.txt[1].message # "" /\ artifacts.txt[1].routed = <<>>
    /\ artifacts.html # None /\ artifacts.html[1].message # ""
    /\ artifacts.html[1].routed = <<>>
    /\ artifacts.json = Some(JsonText(<<>>))

\* C10 as stated: a run that ends on an empty result (no bills, no actionable
\* bills, no matches) has exit status 0 and has written the three files,
\* the JSON file holding [] and the others a placeholder.
C10_EmptyResultArtifacts ==
    EmptyResultExit => (exit_status = Some(0) /\ PlaceholderArtifacts)

\* C10 amended: a run that ends on an empty result has exit status 0; in
\* github-action mode it has written the three files, the JSON file holding
\* [] and the others a placeholder, and in local mode it has written none.
C10_EmptyResultByMode ==
    EmptyResultExit =>
        /\ exit_status = Some(0)
        /\ IF mode = "github-action" THEN PlaceholderArtifacts
           ELSE artifacts = NoArtifacts

\* C10 witness: a github-action run with actionable bills, none of which
\* matched, has exited with the three placeholder files.
C10_Witness ==
    /\ EmptyResultExit
    /\ mode = "github-action"
    /\ actionable # <<>>
    /\ PlaceholderArtifacts

\* the input of the end-to-end scenario: one file holding the HB1234 record,
\* no tracked bills, a housing subscription with a recipient and "Housing"
\* among its topics
ScenarioInput ==
    /\ data_dir_exists
    /\ Len(bill_files) = 1
    /\ Len(RecordsOf(bill_files[1])) = 1
    /\ RecordsOf(bill_files[1])[1] \in ScenarioRecords
    /\ subs.tracked_bills = <<>>
    /\ subs.housing.recipients # <<>>
    /\ Housing \in Range(subs.housing.topics)

ScenarioStatusUrl ==
    <<"https://www.ilga.gov/legislation/BillStatus?DocTypeID=">>
        \o <<"H","B">> \o <<"&DocNum=">> \o <<"1","2","3","4">>

\* C11: on the scenario input the run does not abort and does not stop at
\* the filter, and once routing is done the routed output is exactly one
\* category, Housing & Development, holding exactly one bill, HB1234, whose
\* next_reading is FIRST and whose status URL is the ILGA address with
\* DocTypeID=HB and DocNum=1234; the JSON output is that one bill.
C11_EndToEndScenario ==
    ScenarioInput =>
        /\ pc # "aborted"
        /\ pc = "filtered" => Len(actionable) = 1
        /\ pc \in {"generated", "exited"} =>
               /\ Len(routed) = 1
               /\ routed[1].category = HousingLabel
               /\ Len(routed[1].bills) = 1
               /\ routed[1].bills[1].bill_number = HB1234
               /\ routed[1].bills[1].next_reading = "FIRST"
               /\ routed[1].bills[1].ilga_url = ScenarioStatusUrl
               /\ Len(json_output) = 1
               /\ json_output[1].category = HousingLabel
               /\ json_output[1].next_reading = "FIRST"
               /\ json_output[1].bill_status_url = ScenarioStatusUrl

\* C11 witness: the scenario has run to its exit with the transportation
\* subscription enabled as well, and HB1234 is routed to housing.
C11_Witness ==
    /\ ScenarioInput
    /\ subs.transportation.recipients # <<>>
    /\ pc = "exited"
    /\ Len(routed) = 1
    /\ routed[1].category = HousingLabel
    /\ routed[1].bills[1].bill_number = HB1234

MeetsActionability(b) == InWindow(b) \/ b.next_reading \in {"FIRST", "SECOND"}

RoutedBills == UNION {Range(routed[i].bills) : i \in 1..Len(routed)}

\* C12: the filter runs before the routing and the routing is that of the
\* filtered list: every bill of every routed category stems from the corpus,
\* is in the actionable list and is actionable (hearing date within [now,
\* now + 30 days] or next_reading FIRST or SECOND), every element of the JSON
\* output is such a bill in its category, and a tracked bill at THIRD
\* reading with no hearing date in the window is in no category.
C12_FilterBeforeRouting ==
    /\ pc \in {"generated", "exited"} /\ actionable # <<>> =>
           routed = route_bills(actionable, subs)
    /\ \A b \in RoutedBills :
           b \in Range(bills) /\ b \in Range(actionable) /\ MeetsActionability(b)
    /\ \A k \in 1..Len(json_output) :
           \E b \in RoutedBills :
               /\ b.bill_number = json_output[k].bill_number
               /\ InCategory(json_output[k].category, b)
    /\ \A b \in Range(bills) :
           (IsTrackedBill(b) /\ b.next_reading = "THIRD" /\ ~InWindow(b))
               => b \notin RoutedBills

\* C12 witness: a run has routed a bill while a tracked bill of the corpus,
\* at THIRD reading with a hearing date past the window, was filtered out.
C12_Witness ==
    /\ pc = "exited"
    /\ routed # <<>>
    /\ \E b \in Range(bills) :
           /\ IsTrackedBill(b)
           /\ b.next_reading = "THIRD"
           /\ b.committee_hearing_date # None
           /\ ~InWindow(b)
           /\ b \notin RoutedBills

\* a bill list as main hands it to the router: no bill number twice
DistinctNumbers(bs) ==
    \A i, j \in 1..Len(bs) : i # j => bs[i].bill_number # bs[j].bill_number

FirstApplicableRule(b) ==
    /\ InCategory(TrackedLabel, b) <=> IsTrackedBill(b)
    /\ InCategory(TransportationLabel, b)
           <=> /\ ~IsTrackedBill(b)
               /\ subs.transportation.recipients # <<>>
               /\ MatchesTransportation(b)
    /\ InCategory(HousingLabel, b)
           <=> /\ ~IsTrackedBill(b)
               /\ ~InCategory(TransportationLabel, b)
               /\ subs.housing.recipients # <<>>
               /\ MatchesHousing(b)

HasZuluHearing(r) ==
    /\ r.actions.tag = "list"
    /\ LET actions == r.actions.v[1]
           hearings == {i \in 1..Len(actions) :
                           /\ Contains(lower(actions[i].description), committee_lit)
                           /\ Contains(lower(actions[i].description), hearing_lit)}
       IN  /\ hearings # {}
           /\ LET first == CHOOSE i \in hearings : \A k \in hearings : i <= k
              IN  /\ actions[first].date # None
                  /\ actions[first].date[1].valid
                  /\ actions[first].date[1].zone = "Z"

\* C14: every record whose committee-hearing timestamp ends in "Z" is
\* normalized to a Bill with its hearing date set, and no run aborts: the
\* filter evaluates every Bill the normalizer produced to true or false, so
\* the exit status is never that of an uncaught error.
C14_NoErrorEscapes ==
    /\ \A i \in 1..Len(bill_files) :
           \A k \in 1..Len(RecordsOf(bill_files[i])) :
               LET r == RecordsOf(bill_files[i])[k]
               IN  HasZuluHearing(r) =>
                       /\ parse_bill(r) # None
                       /\ parse_bill(r)[1].committee_hearing_date # None
    /\ pc # "aborted"
    /\ exit_status # Some(1)

====
